---- MODULE Spec2Model ----
(***************************************************************************)
(* Pizzaz MCP server: session table, push (SSE) channel, pull (POST)       *)
(* requests and the protocol handlers.                                     *)
(*                                                                         *)
(* The repository holds three revisions of the server:                     *)
(*   "ref"    pizzaz_server_node/src/server.ts lines 1-321                 *)
(*            (CallTool answers with a reference to the widget uri)        *)
(*   "inline" pizzaz_server_node/src/server.ts lines 323-693               *)
(*            (CallTool answers with the widget html inline)               *)
(*   "lite"   unnamed/part_001 (no onclose handler, no heartbeat, no       *)
(*            try/catch around the transport call)                         *)
(* The variable variant says which revision runs; it never changes.        *)
(*                                                                         *)
(* Server and SSEServerTransport come from @modelcontextprotocol/sdk and   *)
(* are not part of the repository.  Their calls are modelled at the call   *)
(* sites: every await on them is a suspension point, and a call may        *)
(* resolve or reject.                                                      *)
(***************************************************************************)
EXTENDS Integers, Sequences, FiniteSets, TLC

VARIABLES
    variant,        \* which revision of the server runs
    processAlive,   \* FALSE once an unhandled rejection ended the process
    sessions,       \* the Map sessions: session id -> channel owning the record, 0 = no entry
    issued,         \* session ids generated so far (transport.sessionId values)
    chState,        \* per push channel: "unused", "connecting", "open", "closed", "failed"
    chSid,          \* per push channel: the sessionId of its transport, 0 = none yet
    hbArmed,        \* per push channel: the setInterval timer hb is armed
    hbDue,          \* per push channel: ticks until the armed timer fires
    elapsed,        \* per push channel: ticks since the channel was opened, while it is open
    serverClosed,   \* per push channel: server.close() was called on its Server
    sseStatus,      \* per push channel: HTTP statuses written on the GET response
    frames,         \* per push channel: frames written to the stream, in order
    writeFailed,    \* per push channel: a write to the stream has failed
    requests,       \* per pull request: its record (see IdleRequest)
    rpcReq,         \* SpecRpc: the protocol request handed to the server
    rpcRes,         \* SpecRpc: the server's answer to rpcReq
    assets,         \* the assets directory on disk: whether it exists, and its files
    registry,       \* const widgets: the widget array built when the module is loaded
    boot,           \* "loading" (module being evaluated), "listening", "failed"
    bootError,      \* the Error thrown while the module was loading, if any
    rpcRepeat       \* SpecRpc: how rpcReq relates to the request handled before it

vars == <<variant, processAlive, sessions, issued, chState, chSid, hbArmed, hbDue,
          elapsed, serverClosed, sseStatus, frames, writeFailed, requests,
          rpcReq, rpcRes, assets, registry, boot, bootError, rpcRepeat>>

(***************************************************************************)
(* Bounds and program constants                                            *)
(***************************************************************************)
MaxChan == 2             \* push channels opened in one run
MaxReq == 2              \* pull requests made in one run
TicksPerInterval == 3    \* clock ticks per heartbeat interval

HeartbeatMs == 15000     \* setInterval(..., 15000)
TickMs == HeartbeatMs \div TicksPerInterval
MaxAge == TicksPerInterval + 1

Variants == {"ref", "inline", "lite"}
HasTeardown(v) == v \in {"ref", "inline"}

Channels == 1..MaxChan
SessionIds == 1..MaxChan
Requests == 1..MaxReq
NoSid == 0

(***************************************************************************)
(* Strings that the code inspects by prefix or suffix are sequences of     *)
(* tokens; the others are plain strings.                                   *)
(***************************************************************************)
EndsWith(s, suffix) ==
    /\ Len(suffix) <= Len(s)
    /\ SubSeq(s, Len(s) - Len(suffix) + 1, Len(s)) = suffix

UriPrefix == <<"ui://widget/">>

(***************************************************************************)
(* The assets directory (ASSETS_DIR) and the files read from it.  A file   *)
(* name is a sequence of tokens with "-" and ".html" as tokens of their    *)
(* own, so that startsWith, endsWith and the order of sort() are those of  *)
(* the strings.  The content of a file tells which file it is.             *)
(***************************************************************************)
StartsWith(s, prefix) ==
    /\ Len(prefix) <= Len(s)
    /\ SubSeq(s, 1, Len(prefix)) = prefix

\* The tokens in the order of their first characters: "-" < "." < "2" < "a" < "c" < "l" < "p"
TokenRank(t) ==
    CASE t = "-" -> 1
      [] t = ".html" -> 2
      [] t = "2d2b" -> 3
      [] t = "albums" -> 4
      [] t = "carousel" -> 5
      [] t = "list" -> 6
      [] OTHER -> 7

\* a < b as strings (the default order of Array.prototype.sort)
RECURSIVE StringLess(_, _)
StringLess(a, b) ==
    IF b = <<>> THEN FALSE
    ELSE IF a = <<>> THEN TRUE
    ELSE IF Head(a) = Head(b) THEN StringLess(Tail(a), Tail(b))
    ELSE TokenRank(Head(a)) < TokenRank(Head(b))

Components == {<<"pizzaz">>, <<"pizzaz", "-", "carousel">>, <<"pizzaz", "-", "albums">>,
               <<"pizzaz", "-", "list">>}
DirectFile(c) == c \o <<".html">>
HashedFile(c) == c \o <<"-", "2d2b", ".html">>

AssetsDir == <<"ASSETS_DIR">>
HtmlOf(file) == <<"<html>">> \o file

NoDirectory == [dir |-> FALSE, files |-> {}]
Directory(files) == [dir |-> TRUE, files |-> files]

ReadOk(html) == [ok |-> TRUE, html |-> html, error |-> [message |-> "", item |-> <<>>, location |-> <<>>]]
ReadThrows(message, item, location) ==
    [ok |-> FALSE, html |-> <<>>,
     error |-> [message |-> message, item |-> item, location |-> location]]

\* candidates[candidates.length - 1] after sort(): the greatest candidate
LastSorted(cands) == CHOOSE f \in cands : \A g \in cands \ {f} : StringLess(g, f)

\* server.ts: readWidgetHtml(componentName)
readWidgetHtml(a, componentName) ==
    IF ~a.dir THEN ReadThrows("Widget assets not found. Expected directory", <<>>, AssetsDir)
    ELSE IF DirectFile(componentName) \in a.files
         THEN ReadOk(HtmlOf(DirectFile(componentName)))
    ELSE LET candidates == {file \in a.files :
                               /\ StartsWith(file, componentName \o <<"-">>)
                               /\ EndsWith(file, <<".html">>)}
         IN  IF candidates # {} THEN ReadOk(HtmlOf(LastSorted(candidates)))
             ELSE ReadThrows("Widget HTML not found in", componentName, AssetsDir)

\* part_001: readHtml(file)
readHtml(a, file) ==
    IF a.dir /\ file \in a.files THEN ReadOk(HtmlOf(file))
    ELSE ReadThrows("Missing widget asset:", file, AssetsDir)

(***************************************************************************)
(* Capability registry                                                     *)
(***************************************************************************)
\* server.ts: the entries of const widgets as written, html: readWidgetHtml(component)
ServerWidget(id, title, uriName, component, invoking, invoked, responseText) ==
    [id |-> id, title |-> title, templateUri |-> UriPrefix \o <<uriName, ".html">>,
     component |-> component, htmlFile |-> <<>>,
     invoking |-> invoking, invoked |-> invoked, responseText |-> responseText]

ServerWidgets ==
    << ServerWidget("pizza-map", "Show Pizza Map", "pizza-map", <<"pizzaz">>,
                    "Hand-tossing a map", "Served a fresh map", "Rendered a pizza map!"),
       ServerWidget("pizza-carousel", "Show Pizza Carousel", "pizza-carousel",
                    <<"pizzaz", "-", "carousel">>,
                    "Carousel some spots", "Served a fresh carousel",
                    "Rendered a pizza carousel!"),
       ServerWidget("pizza-albums", "Show Pizza Album", "pizza-albums",
                    <<"pizzaz", "-", "albums">>,
                    "Hand-tossing an album", "Served a fresh album",
                    "Rendered a pizza album!"),
       ServerWidget("pizza-list", "Show Pizza List", "pizza-list",
                    <<"pizzaz", "-", "list">>,
                    "Hand-tossing a list", "Served a fresh list",
                    "Rendered a pizza list!") >>

\* part_001: the entries of const widgets, html: readHtml(htmlFile)
LiteWidget(id, title, file) ==
    [id |-> id, title |-> title, templateUri |-> UriPrefix \o file,
     component |-> <<>>, htmlFile |-> file,
     invoking |-> "", invoked |-> "", responseText |-> ""]

LiteWidgets ==
    << LiteWidget("pizza-map", "Pizza Map", DirectFile(<<"pizzaz">>)),
       LiteWidget("pizza-carousel", "Pizza Carousel", DirectFile(<<"pizzaz", "-", "carousel">>)),
       LiteWidget("pizza-albums", "Pizza Albums", DirectFile(<<"pizzaz", "-", "albums">>)),
       LiteWidget("pizza-list", "Pizza List", DirectFile(<<"pizzaz", "-", "list">>)) >>

WidgetDecls(v) == IF v = "lite" THEN LiteWidgets ELSE ServerWidgets

\* The html: initialiser of one entry, evaluated against the directory a
ReadWidget(v, a, d) == IF v = "lite" THEN readHtml(a, d.htmlFile)
                       ELSE readWidgetHtml(a, d.component)

WithHtml(d, html) ==
    [id |-> d.id, title |-> d.title, templateUri |-> d.templateUri,
     component |-> d.component, htmlFile |-> d.htmlFile,
     invoking |-> d.invoking, invoked |-> d.invoked, html |-> html,
     responseText |-> d.responseText]

\* Evaluating the array literal const widgets = [...]: the entries are read in order
\* and the first read that throws ends the evaluation of the module
LoadWidgets(v, a) ==
    LET decls == WidgetDecls(v)
        bad == {i \in 1..Len(decls) : ~ReadWidget(v, a, decls[i]).ok}
    IN  IF bad = {}
        THEN [ok |-> TRUE,
              widgets |-> [i \in 1..Len(decls) |->
                              WithHtml(decls[i], ReadWidget(v, a, decls[i]).html)],
              error |-> ReadOk(<<>>).error]
        ELSE [ok |-> FALSE, widgets |-> <<>>,
              error |-> ReadWidget(v, a, decls[CHOOSE i \in bad : \A j \in bad : i <= j]).error]

\* const widgets, as the handlers see it
widgets(v) == registry

NoWidget == [id |-> "", title |-> "", templateUri |-> <<>>, component |-> <<>>,
             htmlFile |-> <<>>, invoking |-> "", invoked |-> "", html |-> <<>>,
             responseText |-> ""]

\* widgets.find(w => uri.endsWith(w.htmlFile)): the first such widget (part_001 only)
widgetsFind(v, uri) ==
    LET hits == {i \in 1..Len(widgets(v)) : EndsWith(uri, widgets(v)[i].htmlFile)}
    IN  IF hits = {} THEN NoWidget
        ELSE widgets(v)[CHOOSE i \in hits : \A j \in hits : i <= j]

\* A faulty widgetsById: every registered name finds the first widget
widgetsByIdFirst(v, name) ==
    IF \E i \in 1..Len(widgets(v)) : widgets(v)[i].id = name THEN widgets(v)[1] ELSE NoWidget

\* widgetsById.get(name): forEach/set and new Map(entries) keep the last entry of a key
widgetsById(v, name) ==
    LET hits == {i \in 1..Len(widgets(v)) : widgets(v)[i].id = name}
    IN  IF hits = {} THEN NoWidget
        ELSE widgets(v)[CHOOSE i \in hits : \A j \in hits : i >= j]

\* A faulty widgetsByUri: every registered uri finds the first widget
widgetsByUriFirst(v, uri) ==
    IF \E i \in 1..Len(widgets(v)) : widgets(v)[i].templateUri = uri THEN widgets(v)[1]
    ELSE NoWidget

\* widgetsByUri.get(uri) (server.ts only)
widgetsByUri(v, uri) ==
    LET hits == {i \in 1..Len(widgets(v)) : widgets(v)[i].templateUri = uri}
    IN  IF hits = {} THEN NoWidget
        ELSE widgets(v)[CHOOSE i \in hits : \A j \in hits : i >= j]

\* widgetMeta(widget) / makeMeta(widget)
widgetMeta(v, w) ==
    IF v = "lite"
    THEN [outputTemplate |-> UriPrefix \o w.htmlFile,
          widget |-> [type |-> "html", ref |-> UriPrefix \o w.htmlFile],
          invoking |-> "", invoked |-> "",
          widgetAccessible |-> TRUE, resultCanProduceWidget |-> TRUE]
    ELSE [outputTemplate |-> w.templateUri,
          widget |-> [type |-> "none", ref |-> <<>>],
          invoking |-> w.invoking, invoked |-> w.invoked,
          widgetAccessible |-> TRUE, resultCanProduceWidget |-> TRUE]

(***************************************************************************)
(* JSON values of a tools/call request.  A scalar carries its type; an     *)
(* object is a function from its keys to scalars; arguments may be omitted.*)
(***************************************************************************)
Str(s) == [t |-> "string", v |-> s]
Num(s) == [t |-> "number", v |-> s]
EmptyObj == [k \in {} |-> Str("")]
NoArgs == [def |-> FALSE, obj |-> EmptyObj]
Args(o) == [def |-> TRUE, obj |-> o]

\* const toolInputSchema (server.ts) / the inline inputSchema of ListTools (part_001)
toolInputSchema(v) ==
    [type |-> "object",
     properties |-> [pizzaTopping |-> "string"],
     required |-> {"pizzaTopping"},
     additionalProperties |-> (v = "lite")]

\* JSON-Schema validity of an arguments value against a declared input schema
SchemaAccepts(schema, a) ==
    /\ a.def
    /\ schema.required \subseteq DOMAIN a.obj
    /\ \A k \in DOMAIN a.obj \cap DOMAIN schema.properties : a.obj[k].t = schema.properties[k]
    /\ schema.additionalProperties \/ DOMAIN a.obj \subseteq DOMAIN schema.properties

\* A faulty toolInputParser: the parsed topping is replaced by a default
toolInputParserDefault(o) ==
    IF "pizzaTopping" \in DOMAIN o /\ o["pizzaTopping"].t = "string"
    THEN [ok |-> TRUE, pizzaTopping |-> "cheese"]
    ELSE [ok |-> FALSE, pizzaTopping |-> ""]

\* toolInputParser.parse / inputSchema.parse: z.object({ pizzaTopping: z.string() }).
\* A zod object strips unknown keys unless .strict() is asked for.
toolInputParser(o) ==
    IF "pizzaTopping" \in DOMAIN o /\ o["pizzaTopping"].t = "string"
    THEN [ok |-> TRUE, pizzaTopping |-> o["pizzaTopping"].v]
    ELSE [ok |-> FALSE, pizzaTopping |-> ""]

(***************************************************************************)
(* Protocol handlers (createPizzazServer).  A handler that throws is       *)
(* answered by the Server with an error response.                          *)
(***************************************************************************)
Request(method, name, uri, a) == [method |-> method, name |-> name, uri |-> uri, args |-> a]
Thrown(kind, what) == [kind |-> "error", error |-> kind, about |-> what]
Result(body) == [kind |-> "result", body |-> body]
IsError(res) == res.kind = "error"

MimeType(v) == IF v = "ref" THEN "text/html+skybridge" ELSE "text/html"

\* A faulty WidgetHtml: the file is read again when the widget is served
WidgetHtmlFromDisk(v, w) ==
    LET hits == {i \in 1..Len(WidgetDecls(v)) : WidgetDecls(v)[i].id = w.id}
    IN  IF hits = {} THEN w.html
        ELSE ReadWidget(v, assets, WidgetDecls(v)[CHOOSE i \in hits : TRUE]).html

\* w.html / widget.html: the text read when the module was loaded
WidgetHtml(v, w) == w.html

\* A faulty CallTool: the arguments are parsed before the name is looked up
CallToolArgsFirst(v, req) ==
    LET w == widgetsById(v, req.name)
        parsed == toolInputParser(IF req.args.def THEN req.args.obj ELSE EmptyObj)
    IN  IF ~parsed.ok THEN Thrown("ZodError", <<req.name>>)
        ELSE IF w = NoWidget THEN Thrown("Unknown tool", <<req.name>>)
        ELSE Result([content |-> << [type |-> "text", text |-> <<w.responseText>>] >>,
                     structuredContent |-> [pizzaTopping |-> parsed.pizzaTopping],
                     meta |-> widgetMeta(v, w)])

\* CallToolRequestSchema handler
CallTool(v, req) ==
    LET w == widgetsById(v, req.name)
        parsed == toolInputParser(IF req.args.def THEN req.args.obj ELSE EmptyObj)
    IN  IF w = NoWidget THEN Thrown("Unknown tool", <<req.name>>)
        ELSE IF ~parsed.ok THEN Thrown("ZodError", <<req.name>>)
        ELSE IF v = "ref" THEN
            Result([content |-> << [type |-> "text", text |-> <<w.responseText>>] >>,
                    structuredContent |-> [pizzaTopping |-> parsed.pizzaTopping],
                    meta |-> [widgetMeta(v, w) EXCEPT
                                 !.widget = [type |-> "html", ref |-> w.templateUri]]])
        ELSE IF v = "inline" THEN
            Result([content |-> << [type |-> "text", text |-> <<w.responseText>>] >>,
                    structuredContent |-> [pizzaTopping |-> parsed.pizzaTopping],
                    meta |-> [widgetMeta(v, w) EXCEPT
                                 !.widget = [type |-> "html", ref |-> WidgetHtml(v, w)]]])
        ELSE
            Result([content |-> << [type |-> "text",
                                    text |-> <<"Rendered ", w.title, " with topping ",
                                               parsed.pizzaTopping>>],
                                   [type |-> "text/html", text |-> WidgetHtml(v, w)] >>,
                    meta |-> widgetMeta(v, w)])

\* ReadResourceRequestSchema handler
ReadResource(v, req) ==
    LET w == IF v = "lite" THEN widgetsFind(v, req.uri) ELSE widgetsByUri(v, req.uri)
    IN  IF w = NoWidget THEN Thrown("Unknown resource", req.uri)
        ELSE Result([contents |-> << [uri |-> w.templateUri, mimeType |-> MimeType(v),
                                      text |-> WidgetHtml(v, w), meta |-> widgetMeta(v, w)] >>])

\* ListToolsRequestSchema handler
ListTools(v) ==
    Result([tools |-> [i \in 1..Len(widgets(v)) |->
                [name |-> widgets(v)[i].id, title |-> widgets(v)[i].title,
                 inputSchema |-> toolInputSchema(v),
                 meta |-> widgetMeta(v, widgets(v)[i])]]])

\* ListResourcesRequestSchema handler
ListResources(v) ==
    Result([resources |-> [i \in 1..Len(widgets(v)) |->
                [uri |-> widgets(v)[i].templateUri, name |-> widgets(v)[i].title,
                 mimeType |-> MimeType(v), meta |-> widgetMeta(v, widgets(v)[i])]]])

\* ListResourceTemplatesRequestSchema handler (server.ts only; part_001 registers none)
ListResourceTemplates(v) ==
    IF v = "lite" THEN Thrown("Method not found", <<"resources/templates/list">>)
    ELSE Result([resourceTemplates |-> [i \in 1..Len(widgets(v)) |->
                    [uriTemplate |-> widgets(v)[i].templateUri, name |-> widgets(v)[i].title,
                     mimeType |-> MimeType(v), meta |-> widgetMeta(v, widgets(v)[i])]]])

\* The Server's dispatch on the request's method
HandleRequest(v, req) ==
    CASE req.method = "tools/call" -> CallTool(v, req)
      [] req.method = "resources/read" -> ReadResource(v, req)
      [] req.method = "tools/list" -> ListTools(v)
      [] req.method = "resources/list" -> ListResources(v)
      [] req.method = "resources/templates/list" -> ListResourceTemplates(v)
      [] OTHER -> Thrown("Method not found", <<req.method>>)

(***************************************************************************)
(* Inputs                                                                  *)
(***************************************************************************)
ToolNames == {"pizza-map", "pizza-carousel", "pizza-albums", "pizza-list", "pizza-pie"}
Toppings == {"pepperoni", ""}
Scalars == {Str(s) : s \in Toppings} \cup {Num("7")}

ArgObjects ==
    {EmptyObj}
    \cup {[k \in {"pizzaTopping"} |-> x] : x \in Scalars}
    \cup {[k \in {"size"} |-> x] : x \in {Str("large")}}
    \cup {[k \in {"pizzaTopping", "size"} |-> IF k = "size" THEN y ELSE x] :
             x \in Scalars, y \in {Str("large"), Num("7")}}

ArgValues == {NoArgs} \cup {Args(o) : o \in ArgObjects}

Uris ==
    {UriPrefix \o <<n, ".html">> : n \in {"pizza-map", "pizza-carousel", "pizza-albums",
                                          "pizza-list", "pizza-pie"}}
    \cup {UriPrefix \o DirectFile(c) : c \in Components}
    \cup {<<"http://elsewhere/", "pizzaz", ".html">>, <<"ui://widget/", "pizzaz">>, <<>>}

RpcRequests ==
    {Request("tools/call", n, <<>>, a) : n \in ToolNames, a \in ArgValues}
    \cup {Request("resources/read", "", u, NoArgs) : u \in Uris}
    \cup {Request(m, "", <<>>, NoArgs) :
             m \in {"tools/list", "resources/list", "resources/templates/list"}}

NoRequest == Request("", "", <<>>, NoArgs)
NoResult == [kind |-> "none"]

\* Messages posted in the session model: one per way a handler can end
SessionMsgs ==
    { Request("tools/call", "pizza-map", <<>>, Args([k \in {"pizzaTopping"} |-> Str("pepperoni")])),
      Request("tools/call", "pizza-pie", <<>>, Args([k \in {"pizzaTopping"} |-> Str("pepperoni")])),
      Request("tools/call", "pizza-map", <<>>, Args([k \in {"pizzaTopping"} |-> Num("7")])),
      Request("resources/read", "", UriPrefix \o <<"pizza-pie", ".html">>, NoArgs),
      Request("tools/list", "", <<>>, NoArgs) }

(***************************************************************************)
(* Session table (const sessions = new Map())                              *)
(***************************************************************************)
\* A faulty NewSessionIds: the id generator may hand out an id again
ReusedSessionIds == SessionIds

\* transport.sessionId: the SDK draws a random UUID per transport
NewSessionIds == SessionIds \ issued

\* sessions.set(sessionId, { server, transport })
SessionsSet(sess, sid, c) == [sess EXCEPT ![sid] = c]

\* A faulty SessionsGet: the first record of the table, whatever id was asked for
SessionsGetFirst(sid) ==
    LET live == {s \in SessionIds : sessions[s] # 0}
    IN  IF sessions[sid] = 0 THEN 0
        ELSE sessions[CHOOSE s \in live : \A t \in live : s <= t]

\* sessions.get(sessionId)
SessionsGet(sid) == sessions[sid]

\* sessions.delete(sessionId)
SessionsDelete(sess, sid) == [sess EXCEPT ![sid] = 0]

\* A faulty SessionsAfterPost: a handler failure tears the session down
SessionsDroppedOnError(sid, res) ==
    IF res.kind = "error" THEN [sessions EXCEPT ![sid] = 0] ELSE sessions

\* handlePostMessage / handlePost never write the table, whatever the handler returned
SessionsAfterPost(sid, res) == sessions

IdleRequest ==
    [st |-> "idle",        \* "idle", "awaiting" (at the await), "done", "escaped" (rejection uncaught)
     sid |-> NoSid,        \* the sessionId query parameter
     chan |-> 0,           \* the channel whose transport the request was handed to
     statuses |-> <<>>,    \* HTTP statuses written on the POST response
     served |-> FALSE,     \* the message reached the protocol server
     failed |-> FALSE,     \* the message's handler threw
     rejected |-> FALSE,   \* transport.handlePostMessage rejected
     lookedUp |-> FALSE,   \* sessions.get was called for it
     afterClose |-> FALSE, \* the named session's push channel had closed when it arrived
     afterFailure |-> FALSE] \* a handler had failed in the named session when it arrived

Frame(kind, r, err) == [kind |-> kind, req |-> r, error |-> err]

\* rpcRepeat: whether the assets directory changed since the last request was handled,
\* and whether the last request was the one before it again, across such a change
NoRepeat == [changed |-> FALSE, again |-> FALSE, acrossChange |-> FALSE]

\* The directories the server is started on
AssetDirs ==
    { NoDirectory,
      Directory({}),
      Directory({DirectFile(c) : c \in Components}),
      Directory({HashedFile(c) : c \in Components}),
      Directory({DirectFile(c) : c \in Components} \cup {HashedFile(c) : c \in Components}),
      Directory({DirectFile(c) : c \in Components \ {<<"pizzaz">>}}),
      Directory({DirectFile(c) : c \in Components \ {<<"pizzaz", "-", "list">>}}) }

\* A directory as the build leaves it: every component's html under its own name
BuiltAssets == Directory({DirectFile(c) : c \in Components})

NoError == ReadOk(<<>>).error

\* The process has been started on one of AssetDirs and has not evaluated the module yet
InitBoot ==
    /\ variant \in Variants
    /\ assets \in AssetDirs
    /\ registry = <<>>
    /\ boot = "loading"
    /\ bootError = NoError
    /\ processAlive = TRUE
    /\ sessions = [s \in SessionIds |-> 0]
    /\ issued = {}
    /\ chState = [c \in Channels |-> "unused"]
    /\ chSid = [c \in Channels |-> NoSid]
    /\ hbArmed = [c \in Channels |-> FALSE]
    /\ hbDue = [c \in Channels |-> 0]
    /\ elapsed = [c \in Channels |-> 0]
    /\ serverClosed = [c \in Channels |-> FALSE]
    /\ sseStatus = [c \in Channels |-> <<>>]
    /\ frames = [c \in Channels |-> <<>>]
    /\ writeFailed = [c \in Channels |-> FALSE]
    /\ requests = [r \in Requests |-> IdleRequest]
    /\ rpcReq = NoRequest
    /\ rpcRes = NoResult
    /\ rpcRepeat = NoRepeat

\* Evaluating the module: const widgets (the reads), the maps and lists derived from
\* it, then httpServer.listen.  A read that throws ends the process before listen.
Startup ==
    /\ boot = "loading"
    /\ LET loaded == LoadWidgets(variant, assets)
       IN  IF loaded.ok
           THEN /\ registry' = loaded.widgets
                /\ boot' = "listening"
                /\ UNCHANGED <<bootError, processAlive>>
           ELSE /\ bootError' = loaded.error
                /\ boot' = "failed"
                /\ processAlive' = FALSE
                /\ UNCHANGED registry
    /\ UNCHANGED <<variant, assets, sessions, issued, chState, chSid, hbArmed, hbDue, elapsed,
                   serverClosed, sseStatus, frames, writeFailed, requests, rpcReq, rpcRes,
                   rpcRepeat>>

\* The assets directory is rebuilt, emptied or removed while the server runs
AssetsChange(a) ==
    /\ boot = "listening"
    /\ a # assets
    /\ assets' = a
    /\ rpcRepeat' = [rpcRepeat EXCEPT !.changed = TRUE]
    /\ UNCHANGED <<variant, registry, boot, bootError, processAlive, sessions, issued, chState,
                   chSid, hbArmed, hbDue, elapsed, serverClosed, sseStatus, frames, writeFailed,
                   requests, rpcReq, rpcRes>>

\* The server listening after the module was loaded on a built assets directory
Init ==
    /\ variant \in Variants
    /\ assets = BuiltAssets
    /\ registry = LoadWidgets(variant, assets).widgets
    /\ boot = "listening"
    /\ bootError = NoError
    /\ processAlive = TRUE
    /\ sessions = [s \in SessionIds |-> 0]
    /\ issued = {}
    /\ chState = [c \in Channels |-> "unused"]
    /\ chSid = [c \in Channels |-> NoSid]
    /\ hbArmed = [c \in Channels |-> FALSE]
    /\ hbDue = [c \in Channels |-> 0]
    /\ elapsed = [c \in Channels |-> 0]
    /\ serverClosed = [c \in Channels |-> FALSE]
    /\ sseStatus = [c \in Channels |-> <<>>]
    /\ frames = [c \in Channels |-> <<>>]
    /\ writeFailed = [c \in Channels |-> FALSE]
    /\ requests = [r \in Requests |-> IdleRequest]
    /\ rpcReq = NoRequest
    /\ rpcRes = NoResult
    /\ rpcRepeat = NoRepeat

Active(c) == chState[c] \in {"connecting", "open"}

(***************************************************************************)
(* GET /mcp: handleSseRequest / handleSse up to the await of               *)
(* server.connect(transport)                                               *)
(***************************************************************************)
HandleSse(c, sid) ==
    /\ processAlive
    /\ boot = "listening"
    /\ chState[c] = "unused"
    /\ \A d \in Channels : d < c => chState[d] # "unused"
    /\ sid \in NewSessionIds
    /\ issued' = issued \cup {sid}
    /\ chSid' = [chSid EXCEPT ![c] = sid]
    /\ sessions' = SessionsSet(sessions, sid, c)
    /\ hbArmed' = [hbArmed EXCEPT ![c] = HasTeardown(variant)]
    /\ hbDue' = [hbDue EXCEPT ![c] = IF HasTeardown(variant) THEN TicksPerInterval ELSE 0]
    /\ chState' = [chState EXCEPT ![c] = "connecting"]
    /\ UNCHANGED <<variant, processAlive, elapsed, serverClosed, sseStatus, frames,
                   writeFailed, requests, rpcReq, rpcRes,
                   assets, registry, boot, bootError, rpcRepeat>>

\* server.connect(transport) resolves: the stream is established (status 200 and the
\* endpoint event); server.ts then runs its finally block, clearInterval(hb)
ConnectResolve(c) ==
    /\ processAlive
    /\ chState[c] = "connecting"
    /\ chState' = [chState EXCEPT ![c] = "open"]
    /\ sseStatus' = [sseStatus EXCEPT ![c] = <<200>>]
    /\ frames' = [frames EXCEPT ![c] = Append(@, Frame("endpoint", 0, FALSE))]
    /\ hbArmed' = [hbArmed EXCEPT ![c] = FALSE]
    /\ hbDue' = [hbDue EXCEPT ![c] = 0]
    /\ UNCHANGED <<variant, processAlive, sessions, issued, chSid, elapsed, serverClosed,
                   writeFailed, requests, rpcReq, rpcRes,
                   assets, registry, boot, bootError, rpcRepeat>>

\* server.connect(transport) rejects.  server.ts: catch (sessions.delete, 500 unless
\* the headers are out) and finally (clearInterval).  part_001: nothing catches it.
\* A frame written to the stream (a ping of the interval callback) has sent the headers.
ConnectReject(c, headersSent) ==
    /\ processAlive
    /\ chState[c] = "connecting"
    /\ frames[c] # <<>> => headersSent
    /\ chState' = [chState EXCEPT ![c] = "failed"]
    /\ elapsed' = [elapsed EXCEPT ![c] = 0]
    /\ hbArmed' = [hbArmed EXCEPT ![c] = FALSE]
    /\ hbDue' = [hbDue EXCEPT ![c] = 0]
    /\ IF HasTeardown(variant)
       THEN /\ sessions' = SessionsDelete(sessions, chSid[c])
            /\ sseStatus' = [sseStatus EXCEPT ![c] = IF headersSent THEN <<200>> ELSE <<500>>]
            /\ UNCHANGED processAlive
       ELSE /\ processAlive' = FALSE
            /\ sseStatus' = [sseStatus EXCEPT ![c] = IF headersSent THEN <<200>> ELSE <<>>]
            /\ UNCHANGED sessions
    /\ UNCHANGED <<variant, issued, chSid, serverClosed, frames, writeFailed, requests,
                   rpcReq, rpcRes, assets, registry, boot, bootError, rpcRepeat>>

\* The push channel closes (client disconnect or socket failure): the transport calls
\* onclose.  server.ts: sessions.delete and server.close().  part_001 sets no onclose.
Close(c) ==
    /\ processAlive
    /\ chState[c] = "open"
    /\ chState' = [chState EXCEPT ![c] = "closed"]
    /\ elapsed' = [elapsed EXCEPT ![c] = 0]
    /\ IF HasTeardown(variant)
       THEN /\ sessions' = SessionsDelete(sessions, chSid[c])
            /\ serverClosed' = [serverClosed EXCEPT ![c] = TRUE]
       ELSE UNCHANGED <<sessions, serverClosed>>
    /\ UNCHANGED <<variant, processAlive, issued, chSid, hbArmed, hbDue, sseStatus, frames,
                   writeFailed, requests, rpcReq, rpcRes,
                   assets, registry, boot, bootError, rpcRepeat>>

\* The interval callback: try { res.write(": ping ...") } catch {}
HbFire(c, writeOk) ==
    /\ processAlive
    /\ hbArmed[c]
    /\ hbDue[c] = 0
    /\ hbDue' = [hbDue EXCEPT ![c] = TicksPerInterval]
    /\ IF writeOk
       THEN /\ frames' = [frames EXCEPT ![c] = Append(@, Frame("ping", 0, FALSE))]
            /\ UNCHANGED writeFailed
       ELSE /\ writeFailed' = [writeFailed EXCEPT ![c] = TRUE]
            /\ UNCHANGED frames
    /\ UNCHANGED <<variant, processAlive, sessions, issued, chState, chSid, hbArmed, elapsed,
                   serverClosed, sseStatus, requests, rpcReq, rpcRes,
                   assets, registry, boot, bootError, rpcRepeat>>

\* One tick (TickMs) of time passes; a timer that is due fires before time moves on
Tick ==
    /\ processAlive
    /\ \E c \in Channels : Active(c) /\ elapsed[c] < MaxAge
    /\ \A c \in Channels : hbArmed[c] => hbDue[c] > 0
    /\ elapsed' = [c \in Channels |->
                     IF Active(c) /\ elapsed[c] < MaxAge THEN elapsed[c] + 1 ELSE elapsed[c]]
    /\ hbDue' = [c \in Channels |-> IF hbArmed[c] THEN hbDue[c] - 1 ELSE hbDue[c]]
    /\ UNCHANGED <<variant, processAlive, sessions, issued, chState, chSid, hbArmed,
                   serverClosed, sseStatus, frames, writeFailed, requests, rpcReq, rpcRes,
                   assets, registry, boot, bootError, rpcRepeat>>

(***************************************************************************)
(* POST /mcp/messages: handlePostMessage / handlePost                      *)
(***************************************************************************)
\* A faulty PostRoute: the table is consulted without the test for a missing id
PostRouteLookupFirst(sid) ==
    IF sid = NoSid \/ SessionsGet(sid) = 0
    THEN [status |-> 404, lookedUp |-> TRUE, chan |-> 0]
    ELSE [status |-> 0, lookedUp |-> TRUE, chan |-> SessionsGet(sid)]

\* A faulty PostRoute: an id that is not in the table falls back to a live session
PostRouteFallback(sid) ==
    LET live == {s \in SessionIds : sessions[s] # 0}
    IN  IF sid = NoSid THEN [status |-> 400, lookedUp |-> FALSE, chan |-> 0]
        ELSE IF SessionsGet(sid) # 0
             THEN [status |-> 0, lookedUp |-> TRUE, chan |-> SessionsGet(sid)]
        ELSE IF live = {} THEN [status |-> 404, lookedUp |-> TRUE, chan |-> 0]
        ELSE [status |-> 0, lookedUp |-> TRUE, chan |-> sessions[CHOOSE s \in live : TRUE]]

\* The early returns: 400 when the id is missing, then sessions.get and 404 when it
\* finds nothing; status 0 means no early return, the request goes to chan's transport
PostRoute(sid) ==
    IF sid = NoSid THEN [status |-> 400, lookedUp |-> FALSE, chan |-> 0]
    ELSE IF SessionsGet(sid) = 0 THEN [status |-> 404, lookedUp |-> TRUE, chan |-> 0]
    ELSE [status |-> 0, lookedUp |-> TRUE, chan |-> SessionsGet(sid)]

\* Up to the await of session.transport.handlePostMessage(req, res)
PostArrive(r, sid) ==
    /\ processAlive
    /\ requests[r].st = "idle"
    /\ \A q \in Requests : q < r => requests[q].st # "idle"
    /\ LET closedBefore == sid # NoSid /\ \E c \in Channels :
                                              chSid[c] = sid /\ chState[c] = "closed"
           failedBefore == \E q \in Requests : requests[q].sid = sid /\ requests[q].failed
           route == PostRoute(sid)
           base == [IdleRequest EXCEPT !.sid = sid, !.afterClose = closedBefore,
                                       !.afterFailure = failedBefore,
                                       !.lookedUp = route.lookedUp]
       IN  requests' = [requests EXCEPT ![r] =
               IF route.status # 0
               THEN [base EXCEPT !.st = "done", !.statuses = <<route.status>>]
               ELSE [base EXCEPT !.st = "awaiting", !.chan = route.chan]]
    /\ UNCHANGED <<variant, processAlive, sessions, issued, chState, chSid, hbArmed, hbDue,
                   elapsed, serverClosed, sseStatus, frames, writeFailed, rpcReq, rpcRes,
                   assets, registry, boot, bootError, rpcRepeat>>

\* What the SDK's transport.handlePostMessage does with the request on channel c:
\* without an established stream it writes 500 and rejects; a body it cannot read
\* gets 400; a message is handed to the server and answered 202; it may also reject
\* before anything was written.
TransportOutcome(c, how) ==
    IF how = "rejects" THEN [statuses |-> <<>>, rejected |-> TRUE, served |-> FALSE]
    ELSE IF chState[c] # "open" THEN [statuses |-> <<500>>, rejected |-> TRUE, served |-> FALSE]
    ELSE IF how = "badBody" THEN [statuses |-> <<400>>, rejected |-> FALSE, served |-> FALSE]
    ELSE [statuses |-> <<202>>, rejected |-> FALSE, served |-> TRUE]

\* catch (err) { ...; if (!res.headersSent) res.writeHead(500).end(...) }
PostCatch(statuses) == IF statuses = <<>> THEN <<500>> ELSE statuses

\* The await completes.  server.ts catches a rejection; part_001 lets it escape.
TransportHandle(r, how, m, sendOk) ==
    /\ processAlive
    /\ requests[r].st = "awaiting"
    /\ LET c == requests[r].chan
           out == TransportOutcome(c, how)
           res == HandleRequest(variant, m)
           caught == out.rejected /\ HasTeardown(variant)
           escaped == out.rejected /\ ~HasTeardown(variant)
       IN  /\ requests' = [requests EXCEPT ![r] =
                   [@ EXCEPT !.st = IF escaped THEN "escaped" ELSE "done",
                             !.statuses = IF caught THEN PostCatch(out.statuses)
                                          ELSE out.statuses,
                             !.served = out.served,
                             !.failed = out.served /\ IsError(res),
                             !.rejected = out.rejected]]
           /\ processAlive' = ~escaped
           /\ sessions' = IF out.served THEN SessionsAfterPost(requests[r].sid, res)
                          ELSE sessions
           /\ frames' = IF out.served /\ sendOk
                        THEN [frames EXCEPT ![c] = Append(@, Frame("message", r, IsError(res)))]
                        ELSE frames
           /\ writeFailed' = IF out.served /\ ~sendOk
                             THEN [writeFailed EXCEPT ![c] = TRUE]
                             ELSE writeFailed
    /\ UNCHANGED <<variant, issued, chState, chSid, hbArmed, hbDue, elapsed, serverClosed,
                   sseStatus, rpcReq, rpcRes,
                   assets, registry, boot, bootError, rpcRepeat>>

\* What can happen to one awaited request: the ways the transport call can end, and
\* for a message that is handled, the message and whether its answer could be written
PostInputs ==
    {[how |-> "handles", m |-> m, sendOk |-> ok] : m \in SessionMsgs, ok \in BOOLEAN}
    \cup {[how |-> h, m |-> NoRequest, sendOk |-> TRUE] : h \in {"badBody", "rejects"}}

Next ==
    \/ \E c \in Channels, sid \in SessionIds : HandleSse(c, sid)
    \/ \E c \in Channels : ConnectResolve(c)
    \/ \E c \in Channels, sent \in BOOLEAN : ConnectReject(c, sent)
    \/ \E c \in Channels : Close(c)
    \/ \E c \in Channels, ok \in BOOLEAN : HbFire(c, ok)
    \/ Tick
    \/ \E r \in Requests, sid \in SessionIds \cup {NoSid} : PostArrive(r, sid)
    \/ \E r \in Requests, i \in PostInputs : TransportHandle(r, i.how, i.m, i.sendOk)

Spec == Init /\ [][Next]_vars

(***************************************************************************)
(* The handlers on their own: the module is loaded, then protocol requests *)
(* drawn from RpcRequests are handled by the server of the running         *)
(* revision, while the assets directory may change on disk.                *)
(***************************************************************************)
Dispatch(m) ==
    /\ boot = "listening"
    /\ rpcReq' = m
    /\ rpcRes' = HandleRequest(variant, m)
    /\ rpcRepeat' = [changed |-> FALSE, again |-> (m = rpcReq),
                     acrossChange |-> (m = rpcReq /\ rpcRepeat.changed)]
    /\ UNCHANGED <<variant, processAlive, sessions, issued, chState, chSid, hbArmed, hbDue,
                   elapsed, serverClosed, sseStatus, frames, writeFailed, requests,
                   assets, registry, boot, bootError>>

NextRpc ==
    \/ Startup
    \/ \E a \in AssetDirs : AssetsChange(a)
    \/ \E m \in RpcRequests : Dispatch(m)

SpecRpc == InitBoot /\ [][NextRpc]_vars

(***************************************************************************)
(* Start-up and the opening and closing of push channels                   *)
(***************************************************************************)
NextBoot ==
    \/ Startup
    \/ \E c \in Channels, sid \in SessionIds : HandleSse(c, sid)
    \/ \E c \in Channels : ConnectResolve(c)
    \/ \E c \in Channels, sent \in BOOLEAN : ConnectReject(c, sent)
    \/ \E c \in Channels : Close(c)

SpecBoot == InitBoot /\ [][NextBoot]_vars

(***************************************************************************)
(* Claims                                                                  *)
(***************************************************************************)
Settled(r) == requests[r].st \in {"done", "escaped"}
HasPing(c) == \E i \in 1..Len(frames[c]) : frames[c][i].kind = "ping"
MessageFrames(c) == {i \in 1..Len(frames[c]) : frames[c][i].kind = "message"}

\* C1: a pull request that arrives after the push channel of the session it names
\* has closed is answered 404 and is not handed to that session's transport.
C1_ClosedSessionNotFound ==
    \A r \in Requests :
        requests[r].afterClose =>
            /\ requests[r].st = "done"
            /\ requests[r].statuses = <<404>>
            /\ requests[r].chan = 0

\* C2: a push channel that has been open for longer than one heartbeat interval
\* (HeartbeatMs = TicksPerInterval ticks of TickMs) has had a heartbeat frame written.
C2_HeartbeatEmitted ==
    \A c \in Channels :
        (Active(c) /\ elapsed[c] * TickMs > HeartbeatMs) => HasPing(c)

\* C3: CallTool of a registered tool with arguments that violate the tool's declared
\* input schema returns a validation error, never a success envelope.
C3_InvalidArgsRejected ==
    ( /\ rpcReq.method = "tools/call"
      /\ widgetsById(variant, rpcReq.name) # NoWidget
      /\ ~SchemaAccepts(toolInputSchema(variant), rpcReq.args) )
    => (IsError(rpcRes) /\ rpcRes.error = "ZodError")

\* C4: the push channels opened so far have pairwise distinct session ids, and the
\* table entry of every open channel still holds that channel's own record (no open
\* overwrote it), so a session id has at most one live channel.
C4_DistinctSessionIds ==
    /\ \A c, d \in Channels :
           (c # d /\ chSid[c] # NoSid /\ chSid[d] # NoSid) => chSid[c] # chSid[d]
    /\ \A c \in Channels : Active(c) => sessions[chSid[c]] = c
    /\ \A s \in SessionIds : Cardinality({c \in Channels : Active(c) /\ chSid[c] = s}) <= 1

C4_Witness ==
    /\ Cardinality({c \in Channels : Active(c)}) >= 2
    /\ Cardinality({chSid[c] : c \in Channels}) >= 2

\* C5: a pull request is handed only to the transport stored under the id it names,
\* and an answer frame appears only on the push channel of the session its request named.
C5_DispatchToNamedSession ==
    /\ \A r \in Requests : requests[r].chan # 0 => chSid[requests[r].chan] = requests[r].sid
    /\ \A c \in Channels : \A i \in MessageFrames(c) :
           /\ requests[frames[c][i].req].sid = chSid[c]
           /\ requests[frames[c][i].req].chan = c

C5_Witness ==
    \E c, d \in Channels :
        /\ c # d
        /\ MessageFrames(c) # {}
        /\ Active(d)
        /\ \E r \in Requests : requests[r].chan = d

\* C6: a pull request whose handling has ended has never had two HTTP statuses
\* written for it, and has had exactly one unless the push channel of the session
\* it was handed to is no longer open.
C6_AnsweredExactlyOnce ==
    \A r \in Requests :
        Settled(r) =>
            /\ Len(requests[r].statuses) <= 1
            /\ (requests[r].chan = 0 \/ chState[requests[r].chan] = "open")
                   => Len(requests[r].statuses) = 1

\* C7: when the transport call of a pull request handed to a live session rejects,
\* the rejection is caught: the request ends answered with one status (500 when
\* nothing was sent before) and the process keeps running.
C7_RejectionCaught ==
    \A r \in Requests :
        (requests[r].rejected /\ chState[requests[r].chan] = "open") =>
            /\ requests[r].st = "done"
            /\ Len(requests[r].statuses) = 1
            /\ processAlive

\* C8: a handler failure (unknown tool, unknown resource, invalid arguments) leaves
\* the session in the table: a pull request that names the session afterwards, while
\* its push channel has not closed, is still handed to its transport, and a table
\* entry is removed only in a step in which its push channel closes or fails to open.
C8_HandlerFailureKeepsSession ==
    /\ [](\A r \in Requests :
             (requests[r].afterFailure /\ ~requests[r].afterClose)
                 => (requests[r].chan # 0 /\ chSid[requests[r].chan] = requests[r].sid))
    /\ [][\A s \in SessionIds :
             (sessions[s] # 0 /\ sessions'[s] = 0) =>
                 /\ Active(sessions[s])
                 /\ chState'[sessions[s]] \in {"closed", "failed"}]_vars

C8_Witness ==
    \E r \in Requests :
        /\ requests[r].afterFailure
        /\ requests[r].served
        /\ sessions[requests[r].sid] = requests[r].chan

\* C9: once a write to a session's push channel has failed, the session is out of
\* the table and its protocol server is closed.
C9_WriteFailureTearsDown ==
    \A c \in Channels :
        writeFailed[c] => (sessions[chSid[c]] # c /\ serverClosed[c])

\* C10: a step in which one push channel closes or fails to open changes nothing of
\* any other session (channel state, protocol server, heartbeat timer, table entry),
\* and the process goes on serving the sessions that are open.
C10_CloseIsolated ==
    [][\A c \in Channels : \A d \in Channels \ {c} :
          (Active(c) /\ chState'[c] \in {"closed", "failed"} /\ chSid[d] # NoSid) =>
              /\ chState'[d] = chState[d]
              /\ serverClosed'[d] = serverClosed[d]
              /\ hbArmed'[d] = hbArmed[d]
              /\ hbDue'[d] = hbDue[d]
              /\ sessions'[chSid[d]] = sessions[chSid[d]]
              /\ chState[d] = "open" => processAlive']_vars

PingCount(fs) == Cardinality({i \in 1..Len(fs) : fs[i].kind = "ping"})

\* C11: the step in which an open push channel closes also leaves the session's
\* heartbeat timer stopped, its table entry removed and its protocol server closed;
\* no timer is armed on a closed channel and no heartbeat frame is written to it.
C11_TeardownInOneStep ==
    /\ [][\A c \in Channels :
             (chState[c] = "open" /\ chState'[c] = "closed") =>
                 /\ ~hbArmed'[c]
                 /\ sessions'[chSid[c]] = 0
                 /\ serverClosed'[c]]_vars
    /\ [](\A c \in Channels : chState[c] = "closed" => ~hbArmed[c])
    /\ [][\A c \in Channels :
             chState[c] = "closed" => PingCount(frames'[c]) = PingCount(frames[c])]_vars

\* C12: the first frame written to a push channel is a flush/comment frame: no
\* handshake, heartbeat or answer frame is written to a channel before one.
C12_FlushFrameFirst ==
    \A c \in Channels :
        Len(frames[c]) > 0 => frames[c][1].kind = "flush"

Arrives(r) == requests[r].st = "idle" /\ requests'[r].st # "idle"

\* C13: a pull request without a sessionId is answered 400 in the step in which it
\* arrives, without a lookup in the session table, without a change to the table
\* and without being handed to any transport, then or later.
C13_MissingIdRejected ==
    /\ [][\A r \in Requests :
             (Arrives(r) /\ requests'[r].sid = NoSid) =>
                 /\ requests'[r].st = "done"
                 /\ requests'[r].statuses = <<400>>
                 /\ ~requests'[r].lookedUp
                 /\ sessions' = sessions
                 /\ frames' = frames]_vars
    /\ [](\A r \in Requests :
             (requests[r].st # "idle" /\ requests[r].sid = NoSid) =>
                 /\ requests[r].statuses = <<400>>
                 /\ requests[r].chan = 0
                 /\ ~requests[r].served)

C13_Witness ==
    \E r \in Requests :
        /\ requests[r].sid = NoSid
        /\ requests[r].statuses = <<400>>
        /\ \E c \in Channels : chState[c] = "open" /\ sessions[chSid[c]] = c

\* C14: a pull request that names an id with no entry in the session table is
\* answered 404 in the step in which it arrives, is handed to no transport, then
\* or later, and the step leaves the table and every push channel as they were.
C14_UnknownIdNotFound ==
    /\ [][\A r \in Requests :
             (/\ Arrives(r)
              /\ requests'[r].sid # NoSid
              /\ sessions[requests'[r].sid] = 0) =>
                 /\ requests'[r].st = "done"
                 /\ requests'[r].statuses = <<404>>
                 /\ requests'[r].chan = 0
                 /\ sessions' = sessions
                 /\ frames' = frames]_vars
    /\ [](\A r \in Requests :
             (requests[r].st = "done" /\ requests[r].statuses = <<404>>) =>
                 (requests[r].chan = 0 /\ ~requests[r].served))

C14_Witness ==
    \E r \in Requests :
        /\ requests[r].sid # NoSid
        /\ requests[r].statuses = <<404>>
        /\ ~requests[r].afterClose
        /\ \E c \in Channels : chState[c] = "open" /\ sessions[chSid[c]] = c

ListedTools == ListTools(variant).body.tools
ListedToolNames == {ListedTools[i].name : i \in DOMAIN ListedTools}
ListedUris ==
    {ListResources(variant).body.resources[i].uri : i \in DOMAIN ListResources(variant).body.resources}
ValidCall ==
    /\ rpcReq.method = "tools/call"
    /\ rpcReq.name \in ListedToolNames
    /\ SchemaAccepts(toolInputSchema(variant), rpcReq.args)

\* C15: CallTool with a name that ListTools does not list is answered with the
\* "Unknown tool" error for that name, whatever the arguments are, valid or not,
\* and the process goes on.
C15_UnknownToolNotFound ==
    (rpcReq.method = "tools/call" /\ rpcReq.name \notin ListedToolNames) =>
        (rpcRes = Thrown("Unknown tool", <<rpcReq.name>>) /\ processAlive)

C15_Witness ==
    /\ rpcReq.method = "tools/call"
    /\ rpcReq.name \notin ListedToolNames
    /\ ~SchemaAccepts(toolInputSchema(variant), rpcReq.args)
    /\ IsError(rpcRes)

\* C16: ReadResource of a uri that is not one of the uris ListResources returns is
\* answered with an error and no content.
C16_UnregisteredUriNotFound ==
    (rpcReq.method = "resources/read" /\ rpcReq.uri \notin ListedUris) => IsError(rpcRes)

\* C17: CallTool of a listed tool with arguments its schema accepts returns a result
\* whose metadata is the metadata ListTools declares for that tool, and whose output
\* template is the output template of that tool and of no other listed tool.
C17_MetadataNamesTool ==
    ValidCall =>
        /\ rpcRes.kind = "result"
        /\ \A i \in DOMAIN ListedTools :
               (ListedTools[i].name = rpcReq.name)
                   <=> (rpcRes.body.meta.outputTemplate = ListedTools[i].meta.outputTemplate)
        /\ \A i \in DOMAIN ListedTools :
               ListedTools[i].name = rpcReq.name =>
                   /\ rpcRes.body.meta.invoking = ListedTools[i].meta.invoking
                   /\ rpcRes.body.meta.invoked = ListedTools[i].meta.invoked
                   /\ rpcRes.body.meta.widgetAccessible = ListedTools[i].meta.widgetAccessible
                   /\ rpcRes.body.meta.resultCanProduceWidget
                          = ListedTools[i].meta.resultCanProduceWidget

C17_Witness ==
    /\ ValidCall
    /\ rpcReq.name = "pizza-list"
    /\ rpcRes.kind = "result"

\* The envelope carries the topping: as structuredContent.pizzaTopping or in a text
Echoes(body, topping) ==
    \/ "structuredContent" \in DOMAIN body /\ body.structuredContent.pizzaTopping = topping
    \/ \E i \in DOMAIN body.content :
           \E k \in DOMAIN body.content[i].text :
               k > 1 /\ body.content[i].text[k] = topping

\* C18: CallTool of a listed tool with valid arguments returns a result that carries
\* the supplied pizzaTopping unchanged, and handling the same request again, also
\* after the assets directory changed on disk, returns the same answer.
C18_PureEcho ==
    /\ [](ValidCall =>
             /\ rpcRes.kind = "result"
             /\ Echoes(rpcRes.body, rpcReq.args.obj["pizzaTopping"].v))
    /\ [][(rpcReq' = rpcReq /\ rpcReq.method = "tools/call") => rpcRes' = rpcRes]_vars

C18_Witness ==
    /\ ValidCall
    /\ rpcReq.args.obj["pizzaTopping"].v = "pepperoni"
    /\ rpcRepeat.acrossChange
    /\ rpcRes.kind = "result"

\* C19: reading the same uri again returns the same answer, whatever happened to the
\* assets directory in between, and no step changes the widget array once the
\* server listens.
C19_ReadIdempotent ==
    /\ [][(rpcReq' = rpcReq /\ rpcReq.method = "resources/read") => rpcRes' = rpcRes]_vars
    /\ [][boot = "listening" => registry' = registry]_vars

C19_Witness ==
    /\ rpcReq.method = "resources/read"
    /\ rpcReq.uri \in ListedUris
    /\ rpcRepeat.acrossChange
    /\ assets = NoDirectory
    /\ rpcRes.kind = "result"

\* The files that hold a declared widget's own content: its html file (part_001), or
\* the direct or the hashed file of its component (server.ts)
OwnFiles(v, d) ==
    IF v = "lite" THEN {d.htmlFile}
    ELSE {DirectFile(d.component), HashedFile(d.component)}

MissingWidgets ==
    {i \in 1..Len(WidgetDecls(variant)) :
        ~assets.dir \/ OwnFiles(variant, WidgetDecls(variant)[i]) \cap assets.files = {}}

\* C20: the server listens only with the whole widget array built, and no push
\* channel is opened before it listens; when the assets directory lacks the content
\* of a declared widget the server never listens, and the error that ends the
\* start-up names the assets directory and a widget whose content is missing.
C20_RegistryBeforeListening ==
    /\ boot = "listening" =>
           /\ Len(registry) = Len(WidgetDecls(variant))
           /\ \A i \in 1..Len(registry) : registry[i].html # <<>>
    /\ boot # "listening" =>
           /\ issued = {}
           /\ \A c \in Channels : chState[c] = "unused"
    /\ MissingWidgets # {} =>
           /\ boot # "listening"
           /\ boot = "failed" =>
                  /\ bootError.location = AssetsDir
                  /\ assets.dir =>
                         \E i \in MissingWidgets :
                             bootError.item \in {WidgetDecls(variant)[i].component,
                                                 WidgetDecls(variant)[i].htmlFile}

\* C21: a session is in the table while its push channel is being opened or is
\* open, is out of the table once that channel has closed, and an id that has left
\* the table is never put back.
C21_NoReturnToOpen ==
    /\ [](\A c \in Channels : Active(c) => sessions[chSid[c]] = c)
    /\ [](\A c \in Channels : chState[c] = "closed" => sessions[chSid[c]] = 0)
    /\ [][\A s \in SessionIds : (s \in issued /\ sessions[s] = 0) => sessions'[s] = 0]_vars

\* C22: every entry of the session table belongs to a push channel whose handshake
\* (server.connect) has completed, and a pull request is handed to a transport only
\* when that transport's push channel is established.
C22_EstablishedBeforeDispatch ==
    /\ [](\A s \in SessionIds : sessions[s] # 0 => chState[sessions[s]] = "open")
    /\ [][\A r \in Requests :
             (Arrives(r) /\ requests'[r].chan # 0) => chState[requests'[r].chan] = "open"]_vars

\* C23: when opening a push channel has failed (server.connect rejected), the entry
\* inserted for it is out of the table, its heartbeat timer is cleared, one status
\* has been written on the GET response (500, or the 200 already sent) and the
\* process runs on; a pull request that names the id afterwards is answered 404
\* and handed to no transport.
C23_ConnectFailureCleanup ==
    /\ [](\A c \in Channels :
             chState[c] = "failed" =>
                 /\ sessions[chSid[c]] = 0
                 /\ ~hbArmed[c]
                 /\ sseStatus[c] \in {<<500>>, <<200>>}
                 /\ processAlive)
    /\ [][\A c \in Channels :
             (chState[c] = "connecting" /\ chState'[c] = "failed") =>
                 (sseStatus'[c] = <<500>> => frames[c] = <<>>)]_vars
    /\ [][\A r \in Requests :
             (/\ Arrives(r)
              /\ \E c \in Channels : chState[c] = "failed" /\ chSid[c] = requests'[r].sid) =>
                 (requests'[r].statuses = <<404>> /\ requests'[r].chan = 0)]_vars

\* C24: for every widget whose html the server loaded with readWidgetHtml(c), the
\* html is the content of c.html when the assets directory has that file, otherwise
\* the content of the hashed file of c, and never the content of the direct file
\* of another component.
C24_OwnFileChosen ==
    boot = "listening" =>
        \A i \in 1..Len(registry) :
            LET c == registry[i].component
            IN  c # <<>> =>
                    /\ DirectFile(c) \in assets.files =>
                           registry[i].html = HtmlOf(DirectFile(c))
                    /\ DirectFile(c) \notin assets.files =>
                           registry[i].html = HtmlOf(HashedFile(c))
                    /\ \A d \in Components \ {c} : registry[i].html # HtmlOf(DirectFile(d))

ListedResources == ListResources(variant).body.resources
ListedTemplates ==
    IF ListResourceTemplates(variant).kind = "result"
    THEN ListResourceTemplates(variant).body.resourceTemplates
    ELSE <<>>
ListedTemplateUris == {ListedTemplates[i].uriTemplate : i \in DOMAIN ListedTemplates}

\* C25: every listed tool name and every listed uri or uriTemplate is among the
\* requests made; a call of a listed tool with arguments its schema accepts
\* succeeds; a read of a listed uri or uriTemplate succeeds and returns one content
\* whose uri is the requested one and whose text and mimeType are those of the
\* listed resource with that uri.
C25_ListingAgreesWithDispatch ==
    /\ ListedToolNames \subseteq ToolNames
    /\ ListedUris \cup ListedTemplateUris \subseteq Uris
    /\ ValidCall => rpcRes.kind = "result"
    /\ (rpcReq.method = "resources/read" /\ rpcReq.uri \in ListedUris \cup ListedTemplateUris) =>
           /\ rpcRes.kind = "result"
           /\ Len(rpcRes.body.contents) = 1
           /\ rpcRes.body.contents[1].uri = rpcReq.uri
           /\ \E i \in DOMAIN ListedResources :
                  /\ ListedResources[i].uri = rpcReq.uri
                  /\ rpcRes.body.contents[1].text = registry[i].html
                  /\ rpcRes.body.contents[1].mimeType = ListedResources[i].mimeType
                  /\ rpcRes.body.contents[1].meta = ListedResources[i].meta

C25_Witness ==
    /\ rpcReq.method = "resources/read"
    /\ Len(ListedResources) > 1
    /\ rpcReq.uri = ListedResources[Len(ListedResources)].uri
    /\ rpcRes.kind = "result"

====
